---- MODULE Spec2Model ----
(***************************************************************************)
(* CroxyProxy downloader (cpfrx_file.py and cpfrx_file_en.py): one CLI run *)
(* as a state machine.  A run fetches the gateway's csrf token, submits    *)
(* the target, extracts the direct link with three ordered regular         *)
(* expressions, resolves it with a HEAD request, streams the body into     *)
(* downloaded_file.zip and unzips it.  Text is modelled as sequences of    *)
(* one-character strings, so that the regular expressions, str.replace,    *)
(* str.strip and urljoin are computed character by character.              *)
(***************************************************************************)
EXTENDS Integers, Sequences, FiniteSets, TLC

(***************************************************************************)
(* Text literals of the source and the response bodies the gateway is      *)
(* modelled to return.                                                     *)
(***************************************************************************)
Quote ==
    "\""

Whitespace ==
    {" ", "\n", "\t"}

Letters ==
    {"a", "b", "c", "d", "e", "f", "g", "h", "i", "j", "k", "l", "m",
     "n", "o", "p", "q", "r", "s", "t", "u", "v", "w", "x", "y", "z"}

\* the literals of the three regular expressions and of the clean-up
AttrDataU ==
    <<"d", "a", "t", "a", "-", "u", "=", "\"">>

LocHref ==
    <<"w", "i", "n", "d", "o", "w", ".", "l", "o", "c", "a", "t", "i",
      "o", "n", ".", "h", "r", "e", "f">>

AnchorOpen ==
    <<"<", "a">>

HrefAttr ==
    <<"h", "r", "e", "f", "=", "\"">>

PathStream ==
    <<"/", "s", "t", "r", "e", "a", "m", "/">>

PathGet ==
    <<"/", "g", "e", "t", "/">>

PathBrowser ==
    <<"/", "b", "r", "o", "w", "s", "e", "r", "/">>

EscSlash ==
    <<"\\", "/">>

Slash ==
    <<"/">>

QuotEntity ==
    <<"&", "q", "u", "o", "t", ";">>

\* the URL of the submission response and of the response a redirect leads to
ServersUrl ==
    <<"h", "t", "t", "p", "s", ":", "/", "/", "g", "/", "s", "e", "r",
      "v", "e", "r", "s">>

MovedUrl ==
    <<"h", "t", "t", "p", "s", ":", "/", "/", "m", "/", "p", "/", "q">>

StreamUrl ==
    <<"h", "t", "t", "p", "s", ":", "/", "/", "c", "/", "s", "t", "r",
      "e", "a", "m", "/", "z">>

\* data-u attribute values as the gateway writes them
ValAbs ==
    <<"h", "t", "t", "p", "s", ":", "\\", "/", "\\", "/", "c", "\\", "/",
      "g", "e", "t", "\\", "/", "a">>

ValRel ==
    <<"/", "g", "e", "t", "/", "r">>

ValQuot ==
    <<"&", "q", "u", "o", "t", ";", "h", "t", "t", "p", "s", ":", "/",
      "/", "c", "/", "x", "&", "q", "u", "o", "t", ";">>

ValNest ==
    <<"&", "q", "u", "&", "q", "u", "o", "t", ";", "o", "t", ";", "\\",
      "&", "q", "u", "o", "t", ";", "/">>

\* page fragments
TagOpen ==
    <<"<", "i", " ">>

TagClose ==
    <<"\"", ">">>

FragDataUOpen ==
    <<"<", "i", " ", "d", "a", "t", "a", "-", "u", "=", "x", ">">>

FragLocRel ==
    <<"w", "i", "n", "d", "o", "w", ".", "l", "o", "c", "a", "t", "i",
      "o", "n", ".", "h", "r", "e", "f", " ", "=", " ", "\"", "\\", "/",
      "s", "t", "r", "e", "a", "m", "\\", "/", "b", "\"", ";">>

FragLocDir ==
    <<"w", "i", "n", "d", "o", "w", ".", "l", "o", "c", "a", "t", "i",
      "o", "n", ".", "h", "r", "e", "f", "=", "\"", "b", "\"", ";">>

FragLocAbs ==
    <<"w", "i", "n", "d", "o", "w", ".", "l", "o", "c", "a", "t", "i",
      "o", "n", ".", "h", "r", "e", "f", " ", " ", "=", " ", " ", "\"",
      "h", "t", "t", "p", ":", "/", "/", "d", "/", "b", "\"", ";">>

FragLocNet ==
    <<"w", "i", "n", "d", "o", "w", ".", "l", "o", "c", "a", "t", "i",
      "o", "n", ".", "h", "r", "e", "f", " ", "=", " ", "\"", "/", "/",
      "e", "/", "b", "\"", ";">>

FragLocEmpty ==
    <<"w", "i", "n", "d", "o", "w", ".", "l", "o", "c", "a", "t", "i",
      "o", "n", ".", "h", "r", "e", "f", " ", "=", " ", "\"", "\"", ";">>

FragLocBad ==
    <<"w", "i", "n", "d", "o", "w", ".", "l", "o", "c", "a", "t", "i",
      "o", "n", ".", "h", "r", "e", "f", " ", "=", "=", " ", "\"", "z",
      "\"", ";">>

FragAnchorGet ==
    <<"<", "a", " ", "i", "d", "=", "\"", "k", "\"", " ", "h", "r", "e",
      "f", "=", "\"", "/", "g", "e", "t", "/", "c", "\"", ">">>

FragAnchorTwo ==
    <<"<", "a", " ", "h", "r", "e", "f", "=", "\"", "/", "s", "t", "r",
      "e", "a", "m", "/", "s", "\"", " ", "h", "r", "e", "f", "=", "\"",
      "/", "b", "r", "o", "w", "s", "e", "r", "/", "t", "\"", ">">>

FragAnchorOut ==
    <<"<", "a", ">", " ", "h", "r", "e", "f", "=", "\"", "/", "g", "e",
      "t", "/", "o", "\"">>

FragAnchorOther ==
    <<"<", "a", " ", "h", "r", "e", "f", "=", "\"", "/", "f", "i", "l",
      "e", "s", "/", "f", "\"", ">">>

FragText ==
    <<"<", "p", ">", "h", "i", "<", "/", "p", ">">>

(***************************************************************************)
(* Text primitives: literal search, str.replace, str.strip.                *)
(***************************************************************************)
Min(S) ==
    CHOOSE x \in S : \A y \in S : x <= y

Max(S) ==
    CHOOSE x \in S : \A y \in S : x >= y

\* s has the literal p at position i
HasAt(s, p, i) ==
    /\ i >= 1
    /\ i + Len(p) - 1 <= Len(s)
    /\ \A k \in 1..Len(p) : s[i + k - 1] = p[k]

\* s contains the literal p
Contains(s, p) ==
    \E i \in 1..Len(s) : HasAt(s, p, i)

\* position of the first character c at or after i, 0 when there is none
NextChar(s, c, i) ==
    LET at == {j \in i..Len(s) : s[j] = c}
    IN  IF at = {} THEN 0 ELSE Min(at)

\* first position at or after i that holds no whitespace (Len(s)+1 at the end)
SkipSpace(s, i) ==
    Min({j \in i..(Len(s) + 1) : j > Len(s) \/ s[j] \notin Whitespace})

RECURSIVE ReplaceFrom(_, _, _, _)
ReplaceFrom(s, old, new, i) ==
    IF i > Len(s) THEN <<>>
    ELSE IF HasAt(s, old, i) THEN new \o ReplaceFrom(s, old, new, i + Len(old))
    ELSE <<s[i]>> \o ReplaceFrom(s, old, new, i + 1)

\* str.replace(old, new): one left-to-right pass over non-overlapping matches
Replace(s, old, new) ==
    ReplaceFrom(s, old, new, 1)

\* str.strip(c): drop the leading and the trailing run of the character c
Strip(s, c) ==
    LET keep == {j \in 1..Len(s) : s[j] # c}
    IN  IF keep = {} THEN <<>> ELSE SubSeq(s, Min(keep), Max(keep))

(***************************************************************************)
(* The three extraction rules of get_real_url, as re.search computes them: *)
(* the leftmost start that matches, greedy quantifiers.  A result is       *)
(* [found, cap]: whether the rule matched and its group 1.                 *)
(***************************************************************************)
NoMatch ==
    [found |-> FALSE, cap |-> <<>>]

\* re.search(r'data-u="([^"]*)"', html)
SearchDataU(html) ==
    LET n      == Len(AttrDataU)
        starts == {i \in 1..Len(html) :
                     HasAt(html, AttrDataU, i) /\ NextChar(html, Quote, i + n) # 0}
    IN  IF starts = {} THEN NoMatch
        ELSE LET i == Min(starts)
             IN  [found |-> TRUE,
                  cap   |-> SubSeq(html, i + n, NextChar(html, Quote, i + n) - 1)]

\* the position of the opening quote of window.location.href\s*=\s*" from i, or 0
LocOpenQuote(html, i) ==
    LET eq == SkipSpace(html, i + Len(LocHref))
    IN  IF eq > Len(html) \/ html[eq] # "=" THEN 0
        ELSE LET q == SkipSpace(html, eq + 1)
             IN  IF q > Len(html) \/ html[q] # Quote THEN 0 ELSE q

\* re.search(r'window\.location\.href\s*=\s*"([^"]*)"', html)
SearchLocation(html) ==
    LET starts == {i \in 1..Len(html) :
                     /\ HasAt(html, LocHref, i)
                     /\ LocOpenQuote(html, i) # 0
                     /\ NextChar(html, Quote, LocOpenQuote(html, i) + 1) # 0}
    IN  IF starts = {} THEN NoMatch
        ELSE LET q == LocOpenQuote(html, Min(starts))
             IN  [found |-> TRUE,
                  cap   |-> SubSeq(html, q + 1, NextChar(html, Quote, q + 1) - 1)]

\* the alternation /(?:stream|get|browser)/ at position i
HasLinkPath(html, i) ==
    \/ HasAt(html, PathStream, i)
    \/ HasAt(html, PathGet, i)
    \/ HasAt(html, PathBrowser, i)

\* the positions j of href=" that <a[^>]* can reach from an <a at i and that
\* are followed by a link path and a closing quote
AnchorHrefs(html, i) ==
    {j \in (i + Len(AnchorOpen))..Len(html) :
        /\ \A k \in (i + Len(AnchorOpen))..(j - 1) : html[k] # ">"
        /\ HasAt(html, HrefAttr, j)
        /\ HasLinkPath(html, j + Len(HrefAttr))
        /\ NextChar(html, Quote, j + Len(HrefAttr)) # 0}

\* re.search(r'<a[^>]*href="(/(?:stream|get|browser)/[^"]*)"', html); [^>]* is
\* greedy, so the last reachable href=" of the leftmost matching <a is taken
SearchAnchor(html) ==
    LET starts == {i \in 1..Len(html) :
                     HasAt(html, AnchorOpen, i) /\ AnchorHrefs(html, i) # {}}
    IN  IF starts = {} THEN NoMatch
        ELSE LET j == Max(AnchorHrefs(html, Min(starts))) + Len(HrefAttr)
             IN  [found |-> TRUE,
                  cap   |-> SubSeq(html, j, NextChar(html, Quote, j) - 1)]

(***************************************************************************)
(* urllib.parse.urljoin(base, url) for an absolute base scheme://host/path *)
(* and a reference without query, fragment or dot segments, whose scheme,  *)
(* if any, is written in lower-case letters.                               *)
(***************************************************************************)
\* position of the ":" that ends a scheme at the start of u, or 0
SchemeEnd(u) ==
    LET c == NextChar(u, ":", 1)
    IN  IF c > 1 /\ \A k \in 1..(c - 1) : u[k] \in Letters THEN c ELSE 0

\* u has a scheme and a non-empty host: scheme://host...
IsAbsolute(u) ==
    LET c == SchemeEnd(u)
    IN  /\ c # 0
        /\ HasAt(u, <<"/", "/">>, c + 1)
        /\ Len(u) >= c + 3
        /\ u[c + 3] # "/"

\* the position of the "/" that starts the path of an absolute URL, or
\* Len(u)+1 when it has no path
PathStart(u) ==
    LET p == NextChar(u, "/", SchemeEnd(u) + 3)
    IN  IF p = 0 THEN Len(u) + 1 ELSE p

urljoin(base, url) ==
    IF url = <<>> THEN base
    ELSE IF SchemeEnd(url) # 0 THEN url
    ELSE IF HasAt(url, <<"/", "/">>, 1)
         THEN SubSeq(base, 1, SchemeEnd(base)) \o url
    ELSE IF url[1] = "/"
         THEN SubSeq(base, 1, PathStart(base) - 1) \o url
    ELSE LET dir == {k \in PathStart(base)..Len(base) : base[k] = "/"}
         IN  IF dir = {} THEN base \o <<"/">> \o url
             ELSE SubSeq(base, 1, Max(dir)) \o url

(***************************************************************************)
(* get_real_url's extraction: the rules in order, the first match wins.    *)
(* The result is [rule, url]; rule "none" stands for the RuntimeError.     *)
(***************************************************************************)
\* m.group(1).replace(r"\/", "/").replace("&quot;", "").strip('"')
CleanDataU(cap) ==
    Strip(Replace(Replace(cap, EscSlash, Slash), QuotEntity, <<>>), Quote)

RuleDataU(html, base) ==
    [rule |-> "a", url |-> CleanDataU(SearchDataU(html).cap)]

\* RuleLocation without urljoin
RuleLocationRaw(html, base) ==
    [rule |-> "b", url |-> Replace(SearchLocation(html).cap, EscSlash, Slash)]

RuleLocation(html, base) ==
    [rule |-> "b",
     url  |-> urljoin(base, Replace(SearchLocation(html).cap, EscSlash, Slash))]

RuleAnchor(html, base) ==
    [rule |-> "c", url |-> urljoin(base, SearchAnchor(html).cap)]

ExtractLink(html, base) ==
    IF SearchDataU(html).found THEN RuleDataU(html, base)
    ELSE IF SearchLocation(html).found THEN RuleLocation(html, base)
    ELSE IF SearchAnchor(html).found THEN RuleAnchor(html, base)
    ELSE [rule |-> "none", url |-> <<>>]

(***************************************************************************)
(* The pages the gateway is modelled to answer with.  dataU lists the      *)
(* values of the page's data-u attributes as written, in page order, and   *)
(* rules names the extraction rules the page was written to match.         *)
(***************************************************************************)
DataUTag(x) ==
    TagOpen \o AttrDataU \o x \o TagClose

Pages ==
    << [html |-> FragText \o DataUTag(ValAbs),
        dataU |-> <<ValAbs>>, rules |-> {"a"}],
       [html |-> FragLocRel \o FragAnchorGet \o DataUTag(ValAbs) \o DataUTag(ValRel),
        dataU |-> <<ValAbs, ValRel>>, rules |-> {"a", "b", "c"}],
       [html |-> DataUTag(ValRel) \o FragLocAbs,
        dataU |-> <<ValRel>>, rules |-> {"a", "b"}],
       [html |-> DataUTag(ValQuot) \o FragAnchorGet,
        dataU |-> <<ValQuot>>, rules |-> {"a", "c"}],
       [html |-> DataUTag(ValNest),
        dataU |-> <<ValNest>>, rules |-> {"a"}],
       [html |-> FragDataUOpen \o FragLocRel \o FragAnchorGet,
        dataU |-> <<>>, rules |-> {"b", "c"}],
       [html |-> FragAnchorTwo \o FragLocDir,
        dataU |-> <<>>, rules |-> {"b", "c"}],
       [html |-> FragLocAbs \o FragText,
        dataU |-> <<>>, rules |-> {"b"}],
       [html |-> FragLocNet,
        dataU |-> <<>>, rules |-> {"b"}],
       [html |-> FragLocEmpty,
        dataU |-> <<>>, rules |-> {"b"}],
       [html |-> FragLocBad \o FragAnchorGet,
        dataU |-> <<>>, rules |-> {"c"}],
       [html |-> FragAnchorTwo,
        dataU |-> <<>>, rules |-> {"c"}],
       [html |-> FragAnchorOut \o FragAnchorOther \o FragText,
        dataU |-> <<>>, rules |-> {}],
       [html |-> <<>>,
        dataU |-> <<>>, rules |-> {}] >>

PageIds ==
    1..Len(Pages)

\* status codes of the submission response
PostStatuses ==
    {200, 301, 302, 303, 404}

(***************************************************************************)
(* The streamed body and the archive format.  A body is a sequence of      *)
(* bytes; "E" stands for zip's end-of-central-directory record, "d" for    *)
(* any other data.                                                         *)
(***************************************************************************)
MaxChunks ==
    3

SeqsUpTo(S, n) ==
    UNION {[1..k -> S] : k \in 0..n}

\* the chunks iter_content may yield; the empty one is skipped by the loop
Chunks ==
    {<<>>, <<"d">>, <<"d", "E">>}

Streams ==
    SeqsUpTo(Chunks, MaxChunks)

RECURSIVE Flatten(_)
Flatten(chunks) ==
    IF chunks = <<>> THEN <<>> ELSE Head(chunks) \o Flatten(Tail(chunks))

\* zipfile.ZipFile(path): the file is accepted when it ends with an
\* end-of-central-directory record
IsZipFile(data) ==
    Len(data) > 0 /\ data[Len(data)] = "E"

\* the members of an accepted archive, named by their position
Members(data) ==
    1..(Len(data) - 1)

(***************************************************************************)
(* State.                                                                  *)
(***************************************************************************)
VARIABLES
    variant,    \* "zh": cpfrx_file.py, "en": cpfrx_file_en.py
    argc,       \* len(sys.argv)
    pc,         \* the statement the run is at
    exitCode,   \* the process exit status (meaningful once pc = "done")
    failure,    \* the stage whose exception ended the run, "none" otherwise
    status,     \* status_code of the submission response
    postPage,   \* the page the submission response carried
    page,       \* the page the last response received carried
    html,       \* resp.text
    respUrl,    \* resp.url
    rule,       \* the extraction rule that matched
    real,       \* download's local real
    total,      \* download's local total
    done,       \* download's local done
    stream,     \* chunks iter_content has yet to yield
    sent,       \* all chunks of the streamed body
    disk,       \* the destination directory
    old,        \* the destination directory when the run started
    out,        \* the progress lines printed
    trace       \* requests issued and stages started, in order

vars ==
    <<variant, argc, pc, exitCode, failure, status, postPage, page, html,
      respUrl, rule, real, total, done, stream, sent, disk, old, out, trace>>

linkVars ==
    <<status, postPage, page, html, respUrl, rule, real>>

loadVars ==
    <<total, done, stream, sent, out>>

\* the destination directory before the first run, and after an earlier run
OldDisks ==
    { [dir |-> FALSE, exists |-> FALSE, data |-> <<>>, extracted |-> {}],
      [dir |-> TRUE, exists |-> FALSE, data |-> <<>>, extracted |-> {}],
      [dir |-> TRUE, exists |-> TRUE, data |-> <<"d", "E">>, extracted |-> {1}] }

Init ==
    /\ variant \in {"zh", "en"}
    /\ argc \in {2, 3, 4}
    /\ pc = "main"
    /\ exitCode = 0
    /\ failure = "none"
    /\ status = 0
    /\ postPage = 0
    /\ page = 0
    /\ html = <<>>
    /\ respUrl = <<>>
    /\ rule = "none"
    /\ real = <<>>
    /\ total = 0
    /\ done = 0
    /\ stream = <<>>
    /\ sent = <<>>
    /\ old \in OldDisks
    /\ disk = old
    /\ out = <<>>
    /\ trace = <<>>

(***************************************************************************)
(* Exceptions.  ExitStatus is the exit status the handlers around a stage  *)
(* give an exception of class exc raised in it.                            *)
(***************************************************************************)
\* cpfrx_file.py: only the top-level handler, except Exception -> sys.exit(2)
ExitStatusZh(stage, exc) ==
    2

\* cpfrx_file_en.py: get_csrf, download and unzip catch their own class and
\* call sys.exit(1); SystemExit is no Exception and passes the top-level
\* handler.  get_real_url turns a RequestException into a RuntimeError.
ExitStatusEn(stage, exc) ==
    IF stage = "token" /\ exc = "RequestException" THEN 1
    ELSE IF stage \in {"get", "loop"} /\ exc = "RequestException" THEN 1
    ELSE IF stage = "unzip" /\ exc = "BadZipFile" THEN 1
    ELSE 2

ExitStatus(v, stage, exc) ==
    IF v = "zh" THEN ExitStatusZh(stage, exc) ELSE ExitStatusEn(stage, exc)

\* an exception of class exc ends the run in stage
Raise(stage, exc) ==
    /\ pc' = "done"
    /\ failure' = stage
    /\ exitCode' = ExitStatus(variant, stage, exc)

(***************************************************************************)
(* The run.                                                                *)
(***************************************************************************)
\* if len(sys.argv) != 3: sys.exit(1)
Main ==
    /\ pc = "main"
    /\ IF argc # 3
       THEN /\ pc' = "done"
            /\ exitCode' = 1
            /\ failure' = "args"
       ELSE /\ pc' = "token"
            /\ UNCHANGED <<exitCode, failure>>
    /\ UNCHANGED <<variant, argc, linkVars, loadVars, disk, old, trace>>

\* GET the index page, raise_for_status, read the csrf input
get_csrf ==
    /\ pc = "token"
    /\ trace' = Append(trace, "token")
    /\ \/ /\ pc' = "post"
          /\ UNCHANGED <<exitCode, failure>>
       \/ \E exc \in {"RequestException", "TypeError"} : Raise("token", exc)
    /\ UNCHANGED <<variant, argc, linkVars, loadVars, disk, old>>

\* Post that sends every 3xx status to the follow-up request
PostFollowAny ==
    /\ pc = "post"
    /\ trace' = Append(trace, "post")
    /\ \E st \in PostStatuses, p \in PageIds :
         /\ status' = st
         /\ postPage' = p
         /\ page' = p
         /\ html' = Pages[p].html
         /\ respUrl' = ServersUrl
         /\ pc' = IF st \in {301, 302, 303} THEN "follow" ELSE "extract"
    /\ UNCHANGED <<variant, argc, exitCode, failure, rule, real, loadVars,
                   disk, old>>

\* SESSION.post(..., allow_redirects=False); a 301 or 302 is followed next
Post ==
    /\ pc = "post"
    /\ trace' = Append(trace, "post")
    /\ \/ \E st \in PostStatuses, p \in PageIds :
            /\ status' = st
            /\ postPage' = p
            /\ page' = p
            /\ html' = Pages[p].html
            /\ respUrl' = ServersUrl
            /\ pc' = IF st \in {301, 302} THEN "follow" ELSE "extract"
            /\ UNCHANGED <<exitCode, failure>>
       \/ /\ Raise("post", "RequestException")
          /\ UNCHANGED <<status, postPage, page, html, respUrl>>
    /\ UNCHANGED <<variant, argc, rule, real, loadVars, disk, old>>

\* resp = SESSION.send(resp.next, allow_redirects=True)
Follow ==
    /\ pc = "follow"
    /\ trace' = Append(trace, "follow")
    /\ \/ \E p \in PageIds :
            /\ page' = p
            /\ html' = Pages[p].html
            /\ respUrl' = MovedUrl
            /\ pc' = "extract"
            /\ UNCHANGED <<exitCode, failure>>
       \/ /\ \E exc \in {"RequestException", "AttributeError"} : Raise("follow", exc)
          /\ UNCHANGED <<page, html, respUrl>>
    /\ UNCHANGED <<variant, argc, status, postPage, rule, real, loadVars, disk, old>>

\* Extract without the final raise: the run goes on with an empty link
ExtractLenient ==
    /\ pc = "extract"
    /\ trace' = Append(trace, "extract")
    /\ rule' = ExtractLink(html, respUrl).rule
    /\ real' = ExtractLink(html, respUrl).url
    /\ pc' = "head"
    /\ UNCHANGED <<variant, argc, exitCode, failure, status, postPage, page,
                   html, respUrl, loadVars, disk, old>>

\* the three rules on resp.text; raise RuntimeError when none matches
Extract ==
    /\ pc = "extract"
    /\ trace' = Append(trace, "extract")
    /\ LET r == ExtractLink(html, respUrl)
       IN  IF r.rule = "none"
           THEN /\ Raise("extract", "RuntimeError")
                /\ UNCHANGED <<rule, real>>
           ELSE /\ rule' = r.rule
                /\ real' = r.url
                /\ pc' = "head"
                /\ UNCHANGED <<exitCode, failure>>
    /\ UNCHANGED <<variant, argc, status, postPage, page, html, respUrl,
                   loadVars, disk, old>>

\* r0 = SESSION.head(real, allow_redirects=True); real = r0.url.  requests
\* refuses a URL without scheme or host (MissingSchema, InvalidURL).
HeadResolve ==
    /\ pc = "head"
    /\ trace' = Append(trace, "head")
    /\ \/ /\ IsAbsolute(real)
          /\ \E final \in {real, StreamUrl} : real' = final
          /\ pc' = "get"
          /\ UNCHANGED <<exitCode, failure>>
       \/ /\ Raise("head", "RequestException")
          /\ UNCHANGED real
    /\ status' = 0
    /\ postPage' = 0
    /\ page' = 0
    /\ html' = <<>>
    /\ respUrl' = <<>>
    /\ rule' = "none"
    /\ UNCHANGED <<variant, argc, loadVars, disk, old>>

\* Get that creates the directory and the file before raise_for_status
GetAfterMkdir ==
    /\ pc = "get"
    /\ trace' = Append(trace, "get")
    /\ disk' = [disk EXCEPT !.dir = TRUE, !.exists = TRUE, !.data = <<>>]
    /\ \/ \E body \in Streams, hasLength \in BOOLEAN :
            /\ sent' = body
            /\ stream' = body
            /\ total' = IF hasLength THEN Len(Flatten(body)) ELSE 0
            /\ done' = 0
            /\ pc' = "open"
            /\ UNCHANGED <<exitCode, failure>>
       \/ /\ \E exc \in {"RequestException", "ValueError"} : Raise("get", exc)
          /\ UNCHANGED <<sent, stream, total, done>>
    /\ UNCHANGED <<variant, argc, linkVars, old, out>>

\* SESSION.get(real, stream=True); raise_for_status; total from content-length
Get ==
    /\ pc = "get"
    /\ trace' = Append(trace, "get")
    /\ \/ \E body \in Streams, hasLength \in BOOLEAN :
            /\ sent' = body
            /\ stream' = body
            /\ total' = IF hasLength THEN Len(Flatten(body)) ELSE 0
            /\ done' = 0
            /\ pc' = "open"
            /\ UNCHANGED <<exitCode, failure>>
       \/ /\ \E exc \in {"RequestException", "ValueError"} : Raise("get", exc)
          /\ UNCHANGED <<sent, stream, total, done>>
    /\ UNCHANGED <<variant, argc, linkVars, disk, old, out>>

\* save_dir.mkdir(parents=True, exist_ok=True); open(..., "wb")
OpenFile ==
    /\ pc = "open"
    /\ trace' = Append(trace, "open")
    /\ \/ /\ disk' = [disk EXCEPT !.dir = TRUE, !.exists = TRUE, !.data = <<>>]
          /\ pc' = "loop"
          /\ UNCHANGED <<exitCode, failure>>
       \/ /\ \E made \in {disk.dir, TRUE} : disk' = [disk EXCEPT !.dir = made]
          /\ Raise("open", "OSError")
    /\ UNCHANGED <<variant, argc, linkVars, loadVars, old>>

\* the progress line printed after a chunk, when total is known
Progress(n, t) ==
    IF t # 0 THEN <<[done |-> n, total |-> t, percent |-> (n * 100) \div t]>>
    ELSE <<>>

\* WriteChunk that puts the chunk in front of what is written
WriteChunkFront ==
    /\ pc = "loop"
    /\ stream # <<>>
    /\ disk' = [disk EXCEPT !.data = Head(stream) \o disk.data]
    /\ done' = done + Len(Head(stream))
    /\ out' = out
    /\ stream' = Tail(stream)
    /\ UNCHANGED <<variant, argc, pc, exitCode, failure, linkVars, total,
                   sent, old, trace>>

\* one turn of the loop over r.iter_content
WriteChunk ==
    /\ pc = "loop"
    /\ stream # <<>>
    /\ LET chunk == Head(stream)
       IN  IF chunk = <<>>
           THEN UNCHANGED <<disk, done, out>>
           ELSE /\ disk' = [disk EXCEPT !.data = disk.data \o chunk]
                /\ done' = done + Len(chunk)
                /\ out' = out \o Progress(done + Len(chunk), total)
    /\ stream' = Tail(stream)
    /\ UNCHANGED <<variant, argc, pc, exitCode, failure, linkVars, total,
                   sent, old, trace>>

\* ChunkError that swallows the exception and leaves the loop
ChunkErrorSwallowed ==
    /\ pc = "loop"
    /\ stream # <<>>
    /\ pc' = "unzip"
    /\ UNCHANGED <<variant, argc, exitCode, failure, linkVars, loadVars,
                   disk, old, trace>>

\* iter_content or f.write raises; the file keeps what was written
ChunkError ==
    /\ pc = "loop"
    /\ stream # <<>>
    /\ \E exc \in {"RequestException", "OSError"} : Raise("loop", exc)
    /\ UNCHANGED <<variant, argc, linkVars, loadVars, disk, old, trace>>

\* the loop ends, the file is closed and download returns
FinishDownload ==
    /\ pc = "loop"
    /\ stream = <<>>
    /\ pc' = "unzip"
    /\ UNCHANGED <<variant, argc, exitCode, failure, linkVars, loadVars,
                   disk, old, trace>>

\* unzip that writes a first member before the archive is validated
unzip_unchecked ==
    /\ pc = "unzip"
    /\ trace' = Append(trace, "unzip")
    /\ disk' = [disk EXCEPT !.extracted = disk.extracted \cup {1}]
    /\ IF IsZipFile(disk.data)
       THEN /\ pc' = "done"
            /\ UNCHANGED <<exitCode, failure>>
       ELSE Raise("unzip", "BadZipFile")
    /\ UNCHANGED <<variant, argc, linkVars, loadVars, old>>

\* ZipFile(downloaded_file) and extractall; n members are written
\* before the first one that fails, if any
unzip ==
    /\ pc = "unzip"
    /\ trace' = Append(trace, "unzip")
    /\ IF ~IsZipFile(disk.data)
       THEN /\ Raise("unzip", "BadZipFile")
            /\ UNCHANGED disk
       ELSE \E n \in {0} \cup Members(disk.data) :
              /\ disk' = [disk EXCEPT !.extracted = disk.extracted \cup (1..n)]
              /\ IF n = Len(disk.data) - 1
                 THEN /\ pc' = "done"
                      /\ UNCHANGED <<exitCode, failure>>
                 ELSE \E exc \in {"BadZipFile", "OSError"} : Raise("unzip", exc)
    /\ UNCHANGED <<variant, argc, linkVars, loadVars, old>>

Next ==
    \/ Main
    \/ get_csrf
    \/ Post
    \/ Follow
    \/ Extract
    \/ HeadResolve
    \/ Get
    \/ OpenFile
    \/ WriteChunk
    \/ ChunkError
    \/ FinishDownload
    \/ unzip

Spec ==
    Init /\ [][Next]_vars

(***************************************************************************)
(* Properties.                                                             *)
(***************************************************************************)
Started(e) ==
    \E i \in DOMAIN trace : trace[i] = e

\* the stages of a run in program order
StageOrder ==
    <<"token", "post", "extract", "head", "get", "unzip">>

\* the run is at, or just past, the extraction of get_real_url
AtExtraction ==
    page # 0 /\ (pc = "head" \/ failure = "extract")

Redirected ==
    status \in {301, 302}

\* a URL reference without scheme
IsRelative(u) ==
    SchemeEnd(u) = 0

\* the link target the matching rule took from the page, before urljoin
Target(text) ==
    IF SearchDataU(text).found THEN CleanDataU(SearchDataU(text).cap)
    ELSE IF SearchLocation(text).found
         THEN Replace(SearchLocation(text).cap, EscSlash, Slash)
    ELSE SearchAnchor(text).cap

\* the chunks the loop has taken from the stream so far, without the empty ones
Written ==
    SelectSeq(SubSeq(sent, 1, Len(sent) - Len(stream)), LAMBDA c : c # <<>>)

\* downloaded_file.zip was opened by this run
Opened ==
    Started("open") /\ failure # "open"

\* C1: a finished run exits 0 exactly when download and extraction completed,
\* 1 exactly when the argument count is wrong (and then without any request),
\* and 2 after every failure of download or extraction.
C1_ExitCodes ==
    pc = "done" =>
        /\ exitCode = 0 <=> failure = "none"
        /\ exitCode = 1 <=> argc # 3
        /\ failure \notin {"none", "args"} => exitCode = 2
        /\ argc # 3 => trace = <<>>

\* C2: when the page has a data-u attribute, rule (a) decides and the link is
\* the first attribute's value with \/ unescaped and free of quotes and of
\* &quot;, whatever else the page holds; (b) is used only without a match of
\* (a), (c) only without a match of (a) and (b).
C2_DataUFirstAndClean ==
    (AtExtraction /\ pc = "head") =>
        /\ "a" \in Pages[page].rules =>
             /\ rule = "a"
             /\ real = Replace(Replace(Pages[page].dataU[1], EscSlash, Slash),
                               QuotEntity, <<>>)
             /\ ~Contains(real, <<Quote>>)
             /\ ~Contains(real, QuotEntity)
        /\ rule = "b" => "a" \notin Pages[page].rules
        /\ rule = "c" => Pages[page].rules = {"c"}

\* C3: when no rule matches the working response, the run ends at the
\* extraction: no HEAD, no streaming GET, no file opened, no unzip, and the
\* destination directory is as it was.
C3_NoMatchEndsRun ==
    (page # 0 /\ Started("extract") /\ Pages[page].rules = {}) =>
        /\ pc = "done"
        /\ failure = "extract"
        /\ exitCode # 0
        /\ ~Started("head") /\ ~Started("get")
        /\ ~Started("open") /\ ~Started("unzip")
        /\ disk = old

C3_Witness ==
    /\ failure = "extract"
    /\ page # 0
    /\ Pages[page].rules = {}
    /\ html # <<>>
    /\ Redirected

\* C4 as stated: a relative link target yields an absolute URL under each of
\* the three rules.
C4_RelativeAlwaysResolved ==
    (AtExtraction /\ pc = "head" /\ IsRelative(Target(html))) => IsAbsolute(real)

\* C4: a relative link target taken by rule (b) or (c) yields an absolute
\* URL; rule (a) returns its target as cleaned, without resolving it.
C4_RelativeResolvedByLocationAndAnchor ==
    (AtExtraction /\ pc = "head") =>
        /\ (rule \in {"b", "c"} /\ IsRelative(Target(html))) => IsAbsolute(real)
        /\ rule = "a" => real = Target(html)

C4_Witness ==
    /\ AtExtraction
    /\ pc = "head"
    /\ rule = "b"
    /\ IsRelative(Target(html))
    /\ Target(html) # <<>>
    /\ Target(html)[1] # "/"
    /\ respUrl = MovedUrl

\* C5: once the file is open, what is written is the non-empty chunks taken
\* so far in arrival order and done counts its bytes; after the loop the
\* file is the whole body, and has content-length bytes when that is known.
C5_DownloadByteExact ==
    Opened =>
        /\ disk.exists
        /\ disk.data = Flatten(Written)
        /\ disk.data \o Flatten(stream) = Flatten(sent)
        /\ done = Len(disk.data)
        /\ (pc = "unzip" \/ Started("unzip")) =>
             /\ disk.data = Flatten(sent)
             /\ total # 0 => Len(disk.data) = total

C5_Witness ==
    /\ pc = "unzip"
    /\ Len(sent) = 3
    /\ sent[2] = <<>>
    /\ sent[1] # sent[3]
    /\ sent[1] # <<>>
    /\ sent[3] # <<>>
    /\ total # 0

\* C6: every non-empty chunk written is followed by a progress line with the
\* cumulative byte count, also when the total is unknown; with a known total
\* the line carries the total and the percentage.
C6_ProgressEveryChunk ==
    Opened =>
        /\ Len(out) = Len(Written)
        /\ \A i \in DOMAIN out :
             /\ out[i].done = Len(Flatten(SubSeq(Written, 1, i)))
             /\ total # 0 =>
                  /\ out[i].total = total
                  /\ out[i].percent = (out[i].done * 100) \div total

\* C7: the stages start in program order, each request and stage at most
\* once, none after a failure, and unzip only after the loop has written
\* the whole body.
C7_StagesInOrder ==
    LET stages == SelectSeq(trace, LAMBDA e : e \notin {"follow", "open"})
    IN  /\ stages = SubSeq(StageOrder, 1, Len(stages))
        /\ \A i, j \in DOMAIN trace : trace[i] = trace[j] => i = j
        /\ Started("follow") => Started("post")
        /\ Started("open") => Started("get")
        /\ failure \notin {"none", "args"} =>
             /\ pc = "done"
             /\ trace[Len(trace)] = (IF failure = "loop" THEN "open" ELSE failure)
        /\ Started("unzip") =>
             /\ stream = <<>>
             /\ disk.exists
             /\ disk.data = Flatten(sent)

C7_Witness ==
    /\ pc = "done"
    /\ failure = "none"
    /\ trace = <<"token", "post", "follow", "extract", "head", "get", "open", "unzip">>
    /\ Len(disk.data) > 1

C9_RedirectFollowedOnce ==
    (page # 0 /\ (pc \in {"extract", "head"} \/ failure = "extract")) =>
        /\ Started("follow") <=> Redirected
        /\ html = Pages[page].html
        /\ respUrl = (IF Redirected THEN MovedUrl ELSE ServersUrl)
        /\ ~Redirected => page = postPage
        /\ pc = "head" =>
             /\ rule = ExtractLink(Pages[page].html, respUrl).rule
             /\ real = ExtractLink(Pages[page].html, respUrl).url

C9_Witness ==
    /\ pc = "head"
    /\ status = 302
    /\ page # postPage
    /\ rule = "c"
    /\ ExtractLink(Pages[postPage].html, ServersUrl).rule = "a"

\* C10: the directory and the file are touched only once the streaming GET
\* has succeeded; a run that fails before that leaves the directory as it
\* was, and only a failure in the chunk loop leaves a partial file.
C10_DiskTouchedAfterGet ==
    /\ disk # old => (Started("open") /\ Started("get") /\ failure # "get")
    /\ failure \in {"args", "token", "post", "follow", "extract", "head", "get"} =>
         disk = old
    /\ (pc = "done" /\ Opened /\ disk.data # Flatten(sent)) => failure = "loop"

C10_Witness ==
    /\ failure = "get"
    /\ old.exists
    /\ disk = old

====
